---- MODULE Spec2Model ----
(***************************************************************************)
(* A model of blast_api's result acquisition (src/main.py):                *)
(*   run_blast               submits a job and reads RID / RTOE            *)
(*   wait_for_blast_results  polls the job, then fetches the text report   *)
(*   parse_blast_text_output turns the report into Alignment records       *)
(*   Alignment.__init__      derives query_align, sbjct_align, subj_range  *)
(*                                                                         *)
(* Spec      : run_blast and wait_for_blast_results against a service that *)
(*             answers every request with any response.                    *)
(* ParseSpec : parse_blast_text_output, one line of the report at a time.  *)
(*                                                                         *)
(* A Python None is the empty tuple <<>>, a value v is <<v>>.              *)
(* run_blast is modelled for calls that do not take the WGS prefix lookup  *)
(* (database = "wgs" with a taxon), which only rewrites the request data.  *)
(***************************************************************************)
EXTENDS Integers, Sequences, FiniteSets, TLC

VARIABLES
    pc,             \* where the call in progress is
    caller,         \* "" | "run_blast" | "wait_for_blast_results": the entry point called
    text,           \* run_blast: response.text of the submission, as lines;
                    \* parse_blast_text_output: its argument, as lines
    wait,           \* run_blast: the wait argument
    rid,            \* run_blast: local rid; wait_for_blast_results: argument rid
    job_rtoe,       \* run_blast: local rtoe
    rtoe,           \* wait_for_blast_results: argument rtoe
    poll_interval,  \* wait_for_blast_results: argument poll_interval
    html,           \* wait_for_blast_results: response.text of the last status poll
    seen,           \* history: per status poll answered, whether it held "Status=WAITING"
    events,         \* history: requests issued and sleeps taken, in order
    report,         \* wait_for_blast_results: result.text of the report fetch
    parsed,         \* history: the texts parse_blast_text_output was called with
    err,            \* the exception raised, NoErr while none
    blocks,         \* parse_blast_text_output: blocks
    bi,             \* index of the block of the for loop
    lines,          \* lines of the current block
    subj_id, subj_name,
    i,              \* line cursor (0-based, as in the source)
    loc,            \* locals of a sub-record: subj_len, score_bits, score, e_value,
                    \* identities, match_len, align_len
    bound,          \* the locals among score_bits, match_len that have been assigned
    query_chunks, sbjct_chunks,
    alignments,     \* the list being built
    scans,          \* history: per Alignment built, the block and line range scanned
    prev            \* history: pc, bi and i before the last step of the parser

pollVars == <<caller, wait, rid, job_rtoe, rtoe, poll_interval, html, seen, events,
              report, parsed>>
parseVars == <<blocks, bi, lines, subj_id, subj_name, i, loc, bound, query_chunks,
               sbjct_chunks, alignments, scans, prev>>
vars == <<pc, text, err, pollVars, parseVars>>

None == <<>>
Some(v) == <<v>>

\* An exception: its type, the pieces of its message, the text appended to it.
NoErr == [type |-> "", msg |-> <<>>, text |-> <<>>]
Exc(type, msg, t) == [type |-> type, msg |-> msg, text |-> t]

\* Where the parser is: the history prev holds it as it was before the last step.
NoStep == [pc |-> "", bi |-> 0, i |-> 0]

\* The locals of a sub-record of parse_blast_text_output, none assigned.
NoLocals ==
    [subj_len |-> None, score_bits |-> None, score |-> None, e_value |-> None,
     identities |-> None, match_len |-> None, align_len |-> None]

(***************************************************************************)
(* Bounds                                                                  *)
(***************************************************************************)
MaxSubmitLines == 2     \* lines of a submission response
MaxPolls == 3           \* status polls answered in one call

\* Defaults of wait_for_blast_results(rid, rtoe=10, poll_interval=5, verbose=True)
DefaultRtoe == 10
DefaultPollInterval == 5

(***************************************************************************)
(* run_blast                                                               *)
(***************************************************************************)
\* Lines a submission response is made of.
SubmitLines ==
    { "QBlastInfoBegin",
      "    RID = RID1",
      "    RID = ",
      "    RTOE = 30",
      "    RTOE = soon",
      "RID = RID2 RTOE = 7" }

SubmitTexts == UNION { [1..n -> SubmitLines] : n \in 0..MaxSubmitLines }

\* "RID =" in line
HasRidMark(line) ==
    line \in {"    RID = RID1", "    RID = ", "RID = RID2 RTOE = 7"}

\* "RTOE =" in line
HasRtoeMark(line) ==
    line \in {"    RTOE = 30", "    RTOE = soon", "RID = RID2 RTOE = 7"}

\* line.split("=")[1].strip()
SplitEqStrip(line) ==
    CASE line = "    RID = RID1" -> "RID1"
      [] line = "    RID = " -> ""
      [] line = "    RTOE = 30" -> "30"
      [] line = "    RTOE = soon" -> "soon"
      [] line = "RID = RID2 RTOE = 7" -> "RID2 RTOE"

\* int(rtoe_str) with the except ValueError branch
ValueErrorRtoe == 20
RtoeOf(rtoe_str) == IF rtoe_str = "30" THEN 30 ELSE ValueErrorRtoe

\* One iteration of "for line in text.splitlines()" on the pair (rid, rtoe).
ReadLine(s, line) ==
    [rid  |-> IF HasRidMark(line) THEN Some(SplitEqStrip(line)) ELSE s.rid,
     rtoe |-> IF HasRtoeMark(line) THEN Some(RtoeOf(SplitEqStrip(line))) ELSE s.rtoe]

RECURSIVE ReadLines(_, _)
ReadLines(s, t) ==
    IF t = <<>> THEN s ELSE ReadLines(ReadLine(s, Head(t)), Tail(t))

\* Mutant of Truthy: "if rid is not None:"
Truthy_IsNotNone(r) == r # None

\* "if rid:" : neither None nor the empty string
Truthy(r) == r # None /\ r[1] # ""

ReadRid(r) == IF Truthy(r) THEN r[1] ELSE ""

Event(op, r, secs) == [op |-> op, rid |-> r, secs |-> secs]

run_blast ==
    /\ pc = "idle"
    /\ \E t \in SubmitTexts, w \in BOOLEAN :
         LET s == ReadLines([rid |-> None, rtoe |-> None], t) IN
         /\ caller' = "run_blast"
         /\ text' = t
         /\ wait' = w
         /\ job_rtoe' = s.rtoe
         /\ events' = Append(events, Event("post", "", 0))
         /\ rid' = ReadRid(s.rid)
         /\ IF ~Truthy(s.rid)
            THEN /\ pc' = "raised"
                 /\ err' = Exc("Exception",
                               <<"RID not found in response. Full response:\n">>, t)
                 /\ UNCHANGED <<rtoe, poll_interval>>
            ELSE /\ err' = NoErr
                 /\ IF w
                    THEN /\ pc' = "poll"
                         /\ rtoe' = DefaultRtoe
                         /\ poll_interval' = DefaultPollInterval
                    ELSE /\ pc' = "returned"
                         /\ UNCHANGED <<rtoe, poll_interval>>
    /\ UNCHANGED <<html, seen, report, parsed, parseVars>>

(***************************************************************************)
(* wait_for_blast_results                                                  *)
(***************************************************************************)
\* The texts the poller looks for; a response is the set of those it contains.
Problem == "There was a problem with the search"
Markers ==
    { Problem, "Status=WAITING", "Status=FAILED", "Status=UNKNOWN", "Status=READY",
      "dscTable", "Sequences producing significant alignments" }
Responses == SUBSET Markers

\* Arguments of a direct call.
RIDs == {"RID1", "FAKE_RID"}
WaitArgs == { [rtoe |-> DefaultRtoe, poll_interval |-> DefaultPollInterval],
              [rtoe |-> 3, poll_interval |-> 2] }

\* The report fetch's result.text: whether it holds the problem text, and its lines.
ReportBodies == { <<>>, <<">ACC1 Desc">> }
Reports == [problem : BOOLEAN, body : ReportBodies]

call_wait_for_blast_results ==
    /\ pc = "idle"
    /\ \E r \in RIDs, a \in WaitArgs :
         /\ rid' = r
         /\ rtoe' = a.rtoe
         /\ poll_interval' = a.poll_interval
    /\ caller' = "wait_for_blast_results"
    /\ pc' = "poll"
    /\ UNCHANGED <<text, err, wait, job_rtoe, html, seen, events, report, parsed,
                   parseVars>>

\* Mutant of Classify: the "Status=FAILED" branch is missing.
Classify_NoFailed(h) ==
    IF Problem \in h THEN "ERROR"
    ELSE IF "Status=WAITING" \in h THEN "WAITING"
    ELSE IF "Status=UNKNOWN" \in h THEN "EXPIRED"
    ELSE IF "Status=READY" \in h THEN "READY"
    ELSE "UNRECOGNIZED"

\* Mutant of Classify: a "Status=FAILED" response is polled again.
Classify_FailedRetries(h) ==
    IF Problem \in h THEN "ERROR"
    ELSE IF "Status=WAITING" \in h THEN "WAITING"
    ELSE IF "Status=FAILED" \in h THEN "UNRECOGNIZED"
    ELSE IF "Status=UNKNOWN" \in h THEN "EXPIRED"
    ELSE IF "Status=READY" \in h THEN "READY"
    ELSE "UNRECOGNIZED"

\* Mutant of Classify: a response with none of the status texts ends the polling as
\* an expired job.
Classify_UnrecognizedExpires(h) ==
    IF Problem \in h THEN "ERROR"
    ELSE IF "Status=WAITING" \in h THEN "WAITING"
    ELSE IF "Status=FAILED" \in h THEN "FAILED"
    ELSE IF "Status=UNKNOWN" \in h THEN "EXPIRED"
    ELSE IF "Status=READY" \in h THEN "READY"
    ELSE "EXPIRED"

\* Mutant of Classify: a "Status=READY" response without the hit markers is polled
\* again.
Classify_NoHitsRetries(h) ==
    IF Problem \in h THEN "ERROR"
    ELSE IF "Status=WAITING" \in h THEN "WAITING"
    ELSE IF "Status=FAILED" \in h THEN "FAILED"
    ELSE IF "Status=UNKNOWN" \in h THEN "EXPIRED"
    ELSE IF "Status=READY" \in h
         THEN (IF h \cap {"dscTable", "Sequences producing significant alignments"} = {}
               THEN "UNRECOGNIZED" ELSE "READY")
    ELSE "UNRECOGNIZED"

\* Mutant of Classify: "Status=READY" is tested right after the problem text.
Classify_ReadyFirst(h) ==
    IF Problem \in h THEN "ERROR"
    ELSE IF "Status=READY" \in h THEN "READY"
    ELSE IF "Status=WAITING" \in h THEN "WAITING"
    ELSE IF "Status=FAILED" \in h THEN "FAILED"
    ELSE IF "Status=UNKNOWN" \in h THEN "EXPIRED"
    ELSE "UNRECOGNIZED"

\* The if / elif chain of the polling loop, lines 207-231.
Classify(h) ==
    IF Problem \in h THEN "ERROR"
    ELSE IF "Status=WAITING" \in h THEN "WAITING"
    ELSE IF "Status=FAILED" \in h THEN "FAILED"
    ELSE IF "Status=UNKNOWN" \in h THEN "EXPIRED"
    ELSE IF "Status=READY" \in h THEN "READY"
    ELSE "UNRECOGNIZED"

\* Mutant of SleepSecs: both branches sleep rtoe.
SleepSecs_Rtoe(c, r, p) == r

\* The argument of time.sleep in the two branches that poll again.
SleepSecs(c, r, p) == IF c = "WAITING" THEN p ELSE r

\* Mutant of PollError: the messages of the FAILED and UNKNOWN branches are swapped.
PollError_Swapped(c, r) ==
    CASE c = "ERROR" ->
           Exc("Exception", <<"NCBI returned an error during check. RID: ", r>>, <<>>)
      [] c = "EXPIRED" ->
           Exc("Exception", <<"BLAST search failed. RID: ", r>>, <<>>)
      [] c = "FAILED" ->
           Exc("Exception", <<"BLAST RID expired or unknown. RID: ", r>>, <<>>)

\* The exception of the three raising branches.
PollError(c, r) ==
    CASE c = "ERROR" ->
           Exc("Exception", <<"NCBI returned an error during check. RID: ", r>>, <<>>)
      [] c = "FAILED" ->
           Exc("Exception", <<"BLAST search failed. RID: ", r>>, <<>>)
      [] c = "EXPIRED" ->
           Exc("Exception", <<"BLAST RID expired or unknown. RID: ", r>>, <<>>)

\* One iteration of "while True": the status request, the classification of its
\* response, and the sleep, raise or break that follows.
Poll ==
    /\ pc = "poll"
    /\ Len(seen) < MaxPolls
    /\ \E h \in Responses :
         LET c == Classify(h)
             polled == Append(events, Event("poll", rid, 0))
         IN
         /\ html' = h
         /\ seen' = Append(seen, "Status=WAITING" \in h)
         /\ \/ /\ c \in {"WAITING", "UNRECOGNIZED"}
               /\ events' = Append(polled, Event("sleep", "", SleepSecs(c, rtoe, poll_interval)))
               /\ pc' = "poll"
               /\ err' = err
            \/ /\ c \in {"ERROR", "FAILED", "EXPIRED"}
               /\ events' = polled
               /\ pc' = "raised"
               /\ err' = PollError(c, rid)
            \/ /\ c = "READY"
               /\ events' = polled
               /\ pc' = "fetch"
               /\ err' = err
    /\ UNCHANGED <<text, caller, wait, rid, job_rtoe, rtoe, poll_interval, report,
                   parsed, parseVars>>

\* Mutant of FetchFailed: the fetched text is not checked.
FetchFailed_Unchecked(r) == FALSE

\* "There was a problem with the search" in result.text
FetchFailed(r) == r.problem

\* Lines 233-249: the report request, its check, and the call of the parser.
Fetch ==
    /\ pc = "fetch"
    /\ \E r \in Reports :
         /\ report' = Some(r)
         /\ events' = Append(events, Event("fetch", rid, 0))
         /\ IF FetchFailed(r)
            THEN /\ pc' = "raised"
                 /\ err' = Exc("Exception",
                               <<"NCBI returned an error in final fetch. RID: ", rid>>, <<>>)
                 /\ parsed' = parsed
            ELSE /\ pc' = "returned"
                 /\ err' = err
                 /\ parsed' = Append(parsed, r.body)
    /\ UNCHANGED <<text, caller, wait, rid, job_rtoe, rtoe, poll_interval, html, seen,
                   parseVars>>

InitRest ==
    /\ caller = ""
    /\ wait = FALSE
    /\ rid = ""
    /\ job_rtoe = None
    /\ rtoe = DefaultRtoe
    /\ poll_interval = DefaultPollInterval
    /\ html = {}
    /\ seen = <<>>
    /\ events = <<>>
    /\ report = None
    /\ parsed = <<>>
    /\ err = NoErr
    /\ blocks = <<>>
    /\ bi = 0
    /\ lines = <<>>
    /\ subj_id = ""
    /\ subj_name = ""
    /\ i = 0
    /\ loc = NoLocals
    /\ bound = {}
    /\ query_chunks = <<>>
    /\ sbjct_chunks = <<>>
    /\ alignments = <<>>
    /\ scans = <<>>
    /\ prev = NoStep

Init ==
    /\ pc = "idle"
    /\ text = <<>>
    /\ InitRest

Next == run_blast \/ call_wait_for_blast_results \/ Poll \/ Fetch

Spec == Init /\ [][Next]_vars

\* The call runs on: the loop polls again after its sleep, and the fetch follows
\* the break (every request is answered).
LiveSpec == Spec /\ WF_vars(Poll) /\ WF_vars(Fetch)

(***************************************************************************)
(* parse_blast_text_output: the text                                       *)
(*                                                                         *)
(* A text is text.split("\n"): a non-empty sequence of lines, the empty    *)
(* string being <<"">>. The lines are those below; what the parser asks of *)
(* a line (a prefix, a substring, its tokens, a regular expression's       *)
(* groups) is tabulated per line.                                          *)
(***************************************************************************)
MaxFreeLines == 2       \* lines of a text made of any lines
MaxPairs == 2           \* Query/Sbjct pairs of one " Score =" section

ReportLines ==
    { "<p>BLASTP 2.13.0+", "ALIGNMENTS", ">ACC1 Desc", "Length=500",
      " Score = 50.0 bits (100),  Expect = 1e-10",
      " Score = 40.0 bits (80),  Expect(2) = 2e-05",
      " Score =  50.0 bits (100)", " Expect = 1e-10",
      " Identities = 45/50 (90%)", " Identities = 3/4 (75%)",
      "Query  1  ACGT  4", "Sbjct  1  ACGT  4", "Query  5  TTGA  8", "Sbjct  5  TTCA  8",
      "Query  21  GGCC  24", "Sbjct  31  GGCC  34", "Query  25  AATT  28",
      "Sbjct  35  AAAT  38", "          ||||", "Sequence ID: ACC1 Length: 500", "",
      ">ACC2 Another subject" }

\* line.startswith("<p>")
PLines == { "<p>BLASTP 2.13.0+" }

\* line.startswith("Length=")
LengthLines == { "Length=500" }

\* line.startswith(" Score =")
ScoreLines == { " Score = 50.0 bits (100),  Expect = 1e-10", " Score = 40.0 bits (80),  Expect(2) = 2e-05", " Score =  50.0 bits (100)" }

\* "Identities" in line
IdentitiesLines == { " Identities = 45/50 (90%)", " Identities = 3/4 (75%)" }

\* line.startswith("Query ")
QueryLines == { "Query  1  ACGT  4", "Query  5  TTGA  8", "Query  21  GGCC  24", "Query  25  AATT  28" }

\* line.startswith(">")
GtLines == { ">ACC1 Desc", ">ACC2 Another subject" }

\* line.startswith("Sequence ID:")
SequenceIdLines == { "Sequence ID: ACC1 Length: 500" }

\* line.strip() == ""
BlankLines == { "" }

\* line.split()
Tokens(line) ==
    CASE line = "<p>BLASTP 2.13.0+" -> <<"<p>BLASTP", "2.13.0+">>
      [] line = "ALIGNMENTS" -> <<"ALIGNMENTS">>
      [] line = ">ACC1 Desc" -> <<">ACC1", "Desc">>
      [] line = "ACC1 Desc" -> <<"ACC1", "Desc">>
      [] line = "Length=500" -> <<"Length=500">>
      [] line = " Score = 50.0 bits (100),  Expect = 1e-10" -> <<"Score", "=", "50.0", "bits", "(100),", "Expect", "=", "1e-10">>
      [] line = " Score = 40.0 bits (80),  Expect(2) = 2e-05" -> <<"Score", "=", "40.0", "bits", "(80),", "Expect(2)", "=", "2e-05">>
      [] line = " Score =  50.0 bits (100)" -> <<"Score", "=", "50.0", "bits", "(100)">>
      [] line = " Expect = 1e-10" -> <<"Expect", "=", "1e-10">>
      [] line = " Identities = 45/50 (90%)" -> <<"Identities", "=", "45/50", "(90%)">>
      [] line = " Identities = 3/4 (75%)" -> <<"Identities", "=", "3/4", "(75%)">>
      [] line = "Query  1  ACGT  4" -> <<"Query", "1", "ACGT", "4">>
      [] line = "Sbjct  1  ACGT  4" -> <<"Sbjct", "1", "ACGT", "4">>
      [] line = "Query  5  TTGA  8" -> <<"Query", "5", "TTGA", "8">>
      [] line = "Sbjct  5  TTCA  8" -> <<"Sbjct", "5", "TTCA", "8">>
      [] line = "Query  21  GGCC  24" -> <<"Query", "21", "GGCC", "24">>
      [] line = "Sbjct  31  GGCC  34" -> <<"Sbjct", "31", "GGCC", "34">>
      [] line = "Query  25  AATT  28" -> <<"Query", "25", "AATT", "28">>
      [] line = "Sbjct  35  AAAT  38" -> <<"Sbjct", "35", "AAAT", "38">>
      [] line = "          ||||" -> <<"||||">>
      [] line = "Sequence ID: ACC1 Length: 500" -> <<"Sequence", "ID:", "ACC1", "Length:", "500">>
      [] line = "" -> <<>>
      [] line = ">ACC2 Another subject" -> <<">ACC2", "Another", "subject">>
      [] line = "ACC2 Another subject" -> <<"ACC2", "Another", "subject">>

\* The strings int() accepts, and their values; every other one raises ValueError.
IsInt(s) == s \in { "1", "3", "4", "5", "8", "21", "24", "25", "28", "31", "34", "35", "38", "45", "50", "75", "90", "500" }

IntOf(s) ==
    CASE s = "1" -> 1
      [] s = "3" -> 3
      [] s = "4" -> 4
      [] s = "5" -> 5
      [] s = "8" -> 8
      [] s = "21" -> 21
      [] s = "24" -> 24
      [] s = "25" -> 25
      [] s = "28" -> 28
      [] s = "31" -> 31
      [] s = "34" -> 34
      [] s = "35" -> 35
      [] s = "38" -> 38
      [] s = "45" -> 45
      [] s = "50" -> 50
      [] s = "75" -> 75
      [] s = "90" -> 90
      [] s = "500" -> 500

\* token.lstrip(">")
LStripGt(tok) ==
    CASE tok = ">ACC1" -> "ACC1"
      [] tok = ">ACC2" -> "ACC2"
      [] OTHER -> tok

\* line.split("=")[1]
SplitEq(line) ==
    CASE line = "Length=500" -> "500"

\* Mutant of ScoreMatch: r"Score\s=\s+([\d\.]+)\sbits\s\((\d+)\)", any blanks
\* after "=".
ScoreMatch_Lenient(line) ==
    CASE line = " Score = 50.0 bits (100),  Expect = 1e-10" -> <<"50.0", "100">>
      [] line = " Score = 40.0 bits (80),  Expect(2) = 2e-05" -> <<"40.0", "80">>
      [] line = " Score =  50.0 bits (100)" -> <<"50.0", "100">>

\* re.search(r"Score\s=\s([\d\.]+)\sbits\s\((\d+)\)", line): its groups, or None
ScoreMatch(line) ==
    CASE line = " Score = 50.0 bits (100),  Expect = 1e-10" -> <<"50.0", "100">>
      [] line = " Score = 40.0 bits (80),  Expect(2) = 2e-05" -> <<"40.0", "80">>
      [] line = " Score =  50.0 bits (100)" -> None

\* re.search(r"Expect(?:\(\d+\))? = ([\deE\.\-]+)", line): its groups, or None
EvalueMatch(line) ==
    CASE line = " Score = 50.0 bits (100),  Expect = 1e-10" -> <<"1e-10">>
      [] line = " Score = 40.0 bits (80),  Expect(2) = 2e-05" -> <<"2e-05">>
      [] line = " Score =  50.0 bits (100)" -> None

\* re.search(r"Identities\s=\s(\d+)\/(\d+)\s\((\d+)\%\)", line): its groups, or None
IdentMatch(line) ==
    CASE line = " Identities = 45/50 (90%)" -> <<"45", "50", "90">>
      [] line = " Identities = 3/4 (75%)" -> <<"3", "4", "75">>

\* The line without the ">" that text.split("\n\n>") consumes
DropGt(line) ==
    CASE line = ">ACC1 Desc" -> "ACC1 Desc"
      [] line = ">ACC2 Another subject" -> "ACC2 Another subject"

\* Texts made of any lines.
FreeTexts == UNION { [1..n -> ReportLines] : n \in 1..MaxFreeLines }

\* Texts laid out as a report: an optional HTML preamble, a subject line, and two
\* sections, each with optional Length, Score, Identities lines and Query / markup /
\* Sbjct triples, the last of which may be cut short; between the sections nothing,
\* a "Sequence ID:" line, a ">" line, or a blank line and a ">" line.
Markup == "          ||||"
QueryOf(sec, k) ==
    IF sec = 1 THEN (IF k % 2 = 1 THEN "Query  1  ACGT  4" ELSE "Query  5  TTGA  8")
               ELSE (IF k % 2 = 1 THEN "Query  21  GGCC  24" ELSE "Query  25  AATT  28")
SbjctOf(sec, k) ==
    IF sec = 1 THEN (IF k % 2 = 1 THEN "Sbjct  1  ACGT  4" ELSE "Sbjct  5  TTCA  8")
               ELSE (IF k % 2 = 1 THEN "Sbjct  31  GGCC  34" ELSE "Sbjct  35  AAAT  38")

RECURSIVE Pairs(_, _)
Pairs(sec, n) ==
    IF n = 0 THEN <<>>
    ELSE Pairs(sec, n - 1) \o <<QueryOf(sec, n), Markup, SbjctOf(sec, n)>>

Segments(sec) ==
    { Pairs(sec, n) : n \in 0..MaxPairs }
    \cup { Pairs(sec, n - 1) \o <<QueryOf(sec, n)>> : n \in 1..MaxPairs }
    \cup { Pairs(sec, n - 1) \o <<QueryOf(sec, n), Markup>> : n \in 1..MaxPairs }

Preambles == { <<>>, <<"<p>BLASTP 2.13.0+", "ALIGNMENTS">> }
Section1 ==
    { l \o s \o d \o g :
        l \in { <<>>, <<"Length=500">> },
        s \in { <<>>, <<" Score = 50.0 bits (100),  Expect = 1e-10">>,
                <<" Score =  50.0 bits (100)", " Expect = 1e-10">> },
        d \in { <<>>, <<" Identities = 45/50 (90%)">> },
        g \in Segments(1) }
Section2 ==
    { b \o s \o d \o g :
        b \in { <<>>, <<"Sequence ID: ACC1 Length: 500">>, <<">ACC2 Another subject">>,
                <<"", ">ACC2 Another subject">> },
        s \in { <<>>, <<" Score = 40.0 bits (80),  Expect(2) = 2e-05">> },
        d \in { <<>>, <<" Identities = 3/4 (75%)">> },
        g \in Segments(2) }
LaidOutTexts ==
    { p \o <<">ACC1 Desc">> \o a \o b : p \in Preambles, a \in Section1, b \in Section2 }

\* Texts with an HTML preamble in which the token "ALIGNMENTS" may stand again:
\* right after itself, inside the subject block, or at the end.
HtmlTexts ==
    { <<"<p>BLASTP 2.13.0+">> \o a \o <<"ALIGNMENTS", ">ACC1 Desc">> \o l
      \o <<" Score = 50.0 bits (100),  Expect = 1e-10", " Identities = 45/50 (90%)">>
      \o b \o Pairs(1, 1) \o c :
        a, b, c \in { <<>>, <<"ALIGNMENTS">> }, l \in { <<>>, <<"Length=500">> } }

ParseTexts == FreeTexts \cup LaidOutTexts \cup HtmlTexts

(***************************************************************************)
(* Alignment                                                               *)
(***************************************************************************)
RECURSIVE JoinSeqs(_)
\* "".join(seq for _, seq, _ in chunks)
JoinSeqs(chunks) ==
    IF chunks = <<>> THEN "" ELSE chunks[1][2] \o JoinSeqs(Tail(chunks))

\* Line 79 indexes sbjct_align_chunks[0] and [-1]: IndexError on an empty list.
AlignmentRaises(a) == a.sbjct_align_chunks = <<>>

\* Mutant of Alignment: subj_range is (start, end) of the last subject chunk, as in
\* the assignment commented out at line 325.
Alignment_LastChunk(a) ==
    [subj_id |-> a.subj_id,
     subj_name |-> a.subj_name,
     subj_len |-> a.subj_len,
     score |-> a.score,
     score_bits |-> a.score_bits,
     e_value |-> a.e_value,
     match_len |-> a.match_len,
     identities |-> a.identities,
     align_len |-> a.align_len,
     query_align_chunks |-> a.query_align_chunks,
     sbjct_align_chunks |-> a.sbjct_align_chunks,
     query_align |-> JoinSeqs(a.query_align_chunks),
     sbjct_align |-> JoinSeqs(a.sbjct_align_chunks),
     subj_range |-> <<a.sbjct_align_chunks[Len(a.sbjct_align_chunks)][1],
                      a.sbjct_align_chunks[Len(a.sbjct_align_chunks)][3]>>]

\* Alignment.__init__: the object built from the constructor's arguments.
Alignment(a) ==
    [subj_id |-> a.subj_id,
     subj_name |-> a.subj_name,
     subj_len |-> a.subj_len,
     score |-> a.score,
     score_bits |-> a.score_bits,
     e_value |-> a.e_value,
     match_len |-> a.match_len,
     identities |-> a.identities,
     align_len |-> a.align_len,
     query_align_chunks |-> a.query_align_chunks,
     sbjct_align_chunks |-> a.sbjct_align_chunks,
     query_align |-> JoinSeqs(a.query_align_chunks),
     sbjct_align |-> JoinSeqs(a.sbjct_align_chunks),
     subj_range |-> <<a.sbjct_align_chunks[1][1],
                      a.sbjct_align_chunks[Len(a.sbjct_align_chunks)][3]>>]

(***************************************************************************)
(* parse_blast_text_output: the scan                                       *)
(***************************************************************************)
Min(S) == CHOOSE x \in S : \A y \in S : x <= y
Max(S) == CHOOSE x \in S : \A y \in S : x >= y

RECURSIVE SplitFrom(_, _, _)
\* text.split("\n\n>"): a cut is an empty line that has a line before it and a line
\* starting with ">" after it; the ">" goes with the cut.
SplitFrom(t, j, acc) ==
    IF j > Len(t) THEN <<acc>>
    ELSE IF j >= 2 /\ j < Len(t) /\ t[j] = "" /\ t[j + 1] \in GtLines
         THEN <<acc>> \o SplitFrom(t, j + 2, <<DropGt(t[j + 1])>>)
         ELSE SplitFrom(t, j + 1, Append(acc, t[j]))

SplitBlocks(t) == SplitFrom(t, 1, <<>>)

\* block.strip(), in lines: the blank lines at both ends go (the blanks it also
\* takes off the first and the last line change no prefix, token or match that is
\* read: the first line is only tokenized); a block of blanks is the empty string.
StripLines(ls) ==
    LET keep == { k \in 1..Len(ls) : ls[k] \notin BlankLines } IN
    IF keep = {} THEN <<"">> ELSE SubSeq(ls, Min(keep), Max(keep))

\* The places of the token "ALIGNMENTS", which stands on a line of its own.
TokenAt(b) == { k \in 1..Len(b) : b[k] = "ALIGNMENTS" }

\* first_block.split("ALIGNMENTS")[1].strip(): the text between the first token
\* and the second one, or the end.
AfterAlignments(b) ==
    LET a == Min(TokenAt(b))
        rest == { k \in TokenAt(b) : k > a }
        z == IF rest = {} THEN Len(b) + 1 ELSE Min(rest)
    IN  StripLines(<<"">> \o SubSeq(b, a + 1, z - 1)
                   \o (IF rest = {} THEN <<>> ELSE <<"">>))

RECURSIVE JoinSp(_)
\* " ".join(tokens)
JoinSp(toks) ==
    IF toks = <<>> THEN ""
    ELSE IF Len(toks) = 1 THEN toks[1]
    ELSE toks[1] \o " " \o JoinSp(Tail(toks))

\* The branch of the if / elif chain of lines 288-327 a line takes.
LineKind(line) ==
    IF line \in LengthLines THEN "Length"
    ELSE IF line \in ScoreLines THEN "Score"
    ELSE IF line \in IdentitiesLines THEN "Identities"
    ELSE IF line \in QueryLines THEN "Query"
    ELSE IF line \in GtLines \cup SequenceIdLines THEN "break"
    ELSE "other"

\* (int(parts[1]), parts[2], int(parts[3])): the exception it raises, "" if none.
ChunkError(parts) ==
    IF Len(parts) < 2 THEN "IndexError"
    ELSE IF ~IsInt(parts[2]) THEN "ValueError"
    ELSE IF Len(parts) < 4 THEN "IndexError"
    ELSE IF ~IsInt(parts[4]) THEN "ValueError"
    ELSE ""

Chunk(parts) == <<IntOf(parts[2]), parts[3], IntOf(parts[4])>>

\* Mutant of PairedAt: "i += 3", the line after the paired one is read.
PairedAt_Late(k) == k + 3

\* Mutant of PairedAt: no "i += 2", the Query line itself is read as the paired one.
PairedAt_Same(k) == k

\* The cursor after a Query line: "i += 2" to the paired line, "i += 1" past it.
PairedAt(k) == k + 2

\* Line 283: the locals a new sub-record starts from.
ResetLocals(l) ==
    [l EXCEPT !.subj_len = None, !.score = None, !.e_value = None,
              !.identities = None, !.align_len = None]

\* The line at cursor k (the source counts from 0).
Line(k) == lines[k + 1]

Raise(type) ==
    /\ pc' = "raised"
    /\ err' = Exc(type, <<>>, <<>>)

\* Lines 266-273: the blocks, the first one cut after "ALIGNMENTS" when the text
\* starts with "<p>".
SplitText ==
    /\ pc = "parse"
    /\ LET bs == SplitBlocks(text)
           first == bs[1]
       IN  IF first[1] \in PLines
           THEN IF TokenAt(first) = {}
                THEN Raise("IndexError") /\ blocks' = blocks
                ELSE /\ blocks' = [bs EXCEPT ![1] = AfterAlignments(first)]
                     /\ pc' = "for"
                     /\ err' = err
           ELSE /\ blocks' = bs
                /\ pc' = "for"
                /\ err' = err
    /\ UNCHANGED <<text, pollVars, bi, lines, subj_id, subj_name, i, loc, bound,
                   query_chunks, sbjct_chunks, alignments, scans>>
    /\ prev' = [pc |-> pc, bi |-> bi, i |-> i]

\* Lines 275-281, and 348-349 when no block is left.
NextBlock ==
    /\ pc = "for"
    /\ IF bi = Len(blocks)
       THEN /\ pc' = "returned"
            /\ UNCHANGED <<err, bi, lines, subj_id, subj_name, i>>
       ELSE LET ls == StripLines(blocks[bi + 1])
                toks == Tokens(ls[1])
            IN  /\ bi' = bi + 1
                /\ lines' = ls
                /\ IF toks = <<>>
                   THEN Raise("IndexError") /\ UNCHANGED <<subj_id, subj_name, i>>
                   ELSE /\ subj_id' = LStripGt(toks[1])
                        /\ subj_name' = JoinSp(Tail(toks))
                        /\ i' = 1
                        /\ pc' = "outer"
                        /\ err' = err
    /\ UNCHANGED <<text, pollVars, blocks, loc, bound, query_chunks, sbjct_chunks,
                   alignments, scans>>
    /\ prev' = [pc |-> pc, bi |-> bi, i |-> i]

\* Lines 282-284: the test of the outer while loop and the reset of the locals.
StartSubRecord ==
    /\ pc = "outer"
    /\ IF i < Len(lines)
       THEN /\ loc' = ResetLocals(loc)
            /\ query_chunks' = <<>>
            /\ sbjct_chunks' = <<>>
            /\ scans' = Append(scans, [block |-> bi, from |-> i, upto |-> i])
            /\ pc' = "inner"
       ELSE /\ pc' = "for"
            /\ UNCHANGED <<loc, query_chunks, sbjct_chunks, scans>>
    /\ UNCHANGED <<text, err, pollVars, blocks, bi, lines, subj_id, subj_name, i, bound,
                   alignments>>
    /\ prev' = [pc |-> pc, bi |-> bi, i |-> i]

scanFrame == <<text, pollVars, blocks, bi, lines, subj_id, subj_name, alignments, scans>>

\* Line 286: the inner loop ends with the block.
ScanEnd ==
    /\ pc = "inner"
    /\ i >= Len(lines)
    /\ pc' = "build"
    /\ UNCHANGED <<err, i, loc, bound, query_chunks, sbjct_chunks, scanFrame>>
    /\ prev' = [pc |-> pc, bi |-> bi, i |-> i]

\* Lines 288-289
ScanLength ==
    /\ pc = "inner" /\ i < Len(lines) /\ LineKind(Line(i)) = "Length"
    /\ IF IsInt(SplitEq(Line(i)))
       THEN /\ loc' = [loc EXCEPT !.subj_len = Some(IntOf(SplitEq(Line(i))))]
            /\ i' = i + 1
            /\ UNCHANGED <<pc, err>>
       ELSE Raise("ValueError") /\ UNCHANGED <<loc, i>>
    /\ UNCHANGED <<bound, query_chunks, sbjct_chunks, scanFrame>>
    /\ prev' = [pc |-> pc, bi |-> bi, i |-> i]

\* Lines 290-299
ScanScore ==
    /\ pc = "inner" /\ i < Len(lines) /\ LineKind(Line(i)) = "Score"
    /\ LET score_match == ScoreMatch(Line(i))
           evalue_match == EvalueMatch(Line(i))
       IN  loc' = [loc EXCEPT
                     !.score_bits = IF score_match # None THEN Some(score_match[1]) ELSE None,
                     !.score = IF score_match # None THEN Some(score_match[2]) ELSE None,
                     !.e_value = IF evalue_match # None THEN Some(evalue_match[1]) ELSE None]
    /\ bound' = bound \cup {"score_bits"}
    /\ i' = i + 1
    /\ UNCHANGED <<pc, err, query_chunks, sbjct_chunks, scanFrame>>
    /\ prev' = [pc |-> pc, bi |-> bi, i |-> i]

\* Lines 300-306
ScanIdentities ==
    /\ pc = "inner" /\ i < Len(lines) /\ LineKind(Line(i)) = "Identities"
    /\ LET ident_m == IdentMatch(Line(i)) IN
       IF ident_m = None
       THEN Raise("AttributeError") /\ UNCHANGED <<loc, bound, i>>
       ELSE /\ loc' = [loc EXCEPT !.match_len = Some(IntOf(ident_m[1])),
                                  !.align_len = Some(IntOf(ident_m[2])),
                                  !.identities = Some(IntOf(ident_m[3]))]
            /\ bound' = bound \cup {"match_len"}
            /\ i' = i + 1
            /\ UNCHANGED <<pc, err>>
    /\ UNCHANGED <<query_chunks, sbjct_chunks, scanFrame>>
    /\ prev' = [pc |-> pc, bi |-> bi, i |-> i]

\* Lines 307-325, and the "i += 1" of line 328
ScanQuery ==
    /\ pc = "inner" /\ i < Len(lines) /\ LineKind(Line(i)) = "Query"
    /\ LET query_parts == Tokens(Line(i))
           j == PairedAt(i)
       IN  IF ChunkError(query_parts) # ""
           THEN Raise(ChunkError(query_parts)) /\ UNCHANGED <<i, query_chunks, sbjct_chunks>>
           ELSE /\ query_chunks' = Append(query_chunks, Chunk(query_parts))
                /\ IF j < Len(lines)
                   THEN LET sbjct_parts == Tokens(Line(j)) IN
                        IF ChunkError(sbjct_parts) # ""
                        THEN /\ Raise(ChunkError(sbjct_parts))
                             /\ i' = j
                             /\ sbjct_chunks' = sbjct_chunks
                        ELSE /\ sbjct_chunks' = Append(sbjct_chunks, Chunk(sbjct_parts))
                             /\ i' = j + 1
                             /\ UNCHANGED <<pc, err>>
                   ELSE /\ sbjct_chunks' = sbjct_chunks
                        /\ i' = j + 1
                        /\ UNCHANGED <<pc, err>>
    /\ UNCHANGED <<loc, bound, scanFrame>>
    /\ prev' = [pc |-> pc, bi |-> bi, i |-> i]

\* Lines 326-327
ScanBreak ==
    /\ pc = "inner" /\ i < Len(lines) /\ LineKind(Line(i)) = "break"
    /\ pc' = "build"
    /\ UNCHANGED <<err, i, loc, bound, query_chunks, sbjct_chunks, scanFrame>>
    /\ prev' = [pc |-> pc, bi |-> bi, i |-> i]

\* Line 328 alone: a line of no kind
ScanOther ==
    /\ pc = "inner" /\ i < Len(lines) /\ LineKind(Line(i)) = "other"
    /\ i' = i + 1
    /\ UNCHANGED <<pc, err, loc, bound, query_chunks, sbjct_chunks, scanFrame>>
    /\ prev' = [pc |-> pc, bi |-> bi, i |-> i]

\* The locals line 335 and line 340 read that line 283 does not assign.
ReadUnassigned == {"score_bits", "match_len"}

\* Lines 330-344: the arguments are read, the Alignment is built and appended.
Build ==
    /\ pc = "build"
    /\ LET a == [subj_id |-> subj_id, subj_name |-> subj_name,
                 subj_len |-> loc.subj_len, score_bits |-> loc.score_bits,
                 score |-> loc.score, e_value |-> loc.e_value,
                 identities |-> loc.identities, align_len |-> loc.align_len,
                 match_len |-> loc.match_len,
                 query_align_chunks |-> query_chunks,
                 sbjct_align_chunks |-> sbjct_chunks]
       IN  IF ~(ReadUnassigned \subseteq bound)
           THEN Raise("UnboundLocalError") /\ alignments' = alignments
           ELSE IF AlignmentRaises(a)
           THEN Raise("IndexError") /\ alignments' = alignments
           ELSE /\ alignments' = Append(alignments, Alignment(a))
                /\ pc' = "skip"
                /\ err' = err
    /\ scans' = [scans EXCEPT ![Len(scans)].upto = i]
    /\ UNCHANGED <<text, pollVars, blocks, bi, lines, subj_id, subj_name, i, loc, bound,
                   query_chunks, sbjct_chunks>>
    /\ prev' = [pc |-> pc, bi |-> bi, i |-> i]

\* Lines 346-347, one line at a time
SkipToScore ==
    /\ pc = "skip"
    /\ IF i < Len(lines) /\ Line(i) \notin ScoreLines
       THEN i' = i + 1 /\ pc' = pc
       ELSE i' = i /\ pc' = "outer"
    /\ UNCHANGED <<text, err, pollVars, blocks, bi, lines, subj_id, subj_name, loc,
                   bound, query_chunks, sbjct_chunks, alignments, scans>>
    /\ prev' = [pc |-> pc, bi |-> bi, i |-> i]

ParseInit ==
    /\ pc = "parse"
    /\ text \in ParseTexts
    /\ InitRest

ParseNext ==
    \/ SplitText \/ NextBlock \/ StartSubRecord
    \/ ScanEnd \/ ScanLength \/ ScanScore \/ ScanIdentities \/ ScanQuery \/ ScanBreak
    \/ ScanOther
    \/ Build \/ SkipToScore

ParseSpec == ParseInit /\ [][ParseNext]_vars

(***************************************************************************)
(* Alignment built directly, as src/tests/test_main.py does: AlignSpec      *)
(***************************************************************************)
MaxChunks == 2          \* chunks of one list of a constructor call

\* (start, sequence, end) tuples
Chunks == { <<1, "ACGT", 4>>, <<5, "TTCA", 8>>, <<31, "GGCC", 34>> }
ChunkLists == UNION { [1..n -> Chunks] : n \in 0..MaxChunks }

\* The constructor's arguments: query_chunks, sbjct_chunks and loc hold
\* query_align_chunks, sbjct_align_chunks and the scalar arguments.
AlignInit ==
    /\ pc = "new"
    /\ text = <<>>
    /\ query_chunks \in ChunkLists
    /\ sbjct_chunks \in ChunkLists
    /\ \E n \in {None, Some(500), Some(2)} : loc = [NoLocals EXCEPT !.subj_len = n]
    /\ caller = "" /\ wait = FALSE /\ rid = "" /\ job_rtoe = None
    /\ rtoe = DefaultRtoe /\ poll_interval = DefaultPollInterval
    /\ html = {} /\ seen = <<>> /\ events = <<>> /\ report = None /\ parsed = <<>>
    /\ err = NoErr
    /\ blocks = <<>> /\ bi = 0 /\ lines = <<>>
    /\ subj_id \in {"ACC1", "7LA4_A"} /\ subj_name = "Desc"
    /\ i = 0 /\ bound = {} /\ alignments = <<>> /\ scans = <<>> /\ prev = NoStep

\* Alignment(...): lines 49-79; line 79 raises on an empty sbjct_align_chunks.
NewAlignment ==
    /\ pc = "new"
    /\ LET a == [subj_id |-> subj_id, subj_name |-> subj_name,
                 subj_len |-> loc.subj_len, score_bits |-> loc.score_bits,
                 score |-> loc.score, e_value |-> loc.e_value,
                 identities |-> loc.identities, align_len |-> loc.align_len,
                 match_len |-> loc.match_len,
                 query_align_chunks |-> query_chunks,
                 sbjct_align_chunks |-> sbjct_chunks]
       IN  IF AlignmentRaises(a)
           THEN Raise("IndexError") /\ alignments' = alignments
           ELSE /\ alignments' = <<Alignment(a)>>
                /\ pc' = "returned"
                /\ err' = err
    /\ UNCHANGED <<text, pollVars, blocks, bi, lines, subj_id, subj_name, i, loc, bound,
                   query_chunks, sbjct_chunks, scans>>
    /\ prev' = prev

AlignNext == NewAlignment

AlignSpec == AlignInit /\ [][AlignNext]_vars

(***************************************************************************)
(* Properties of run_blast and wait_for_blast_results (Spec)               *)
(***************************************************************************)
\* The requests and sleeps of wait_for_blast_results, in order.
PollTrace == SelectSeq(events, LAMBDA e : e.op # "post")
Issued(op) == \E k \in 1..Len(events) : events[k].op = op

\* poll, sleep p, poll, sleep p, ..., poll: n sleeps between n+1 polls.
Alternating(n, r, p) ==
    [k \in 1..(2 * n + 1) |->
        IF k % 2 = 1 THEN Event("poll", r, 0) ELSE Event("sleep", "", p)]

\* Every response before the last one held "Status=WAITING".
EarlierAllWaiting == \A k \in 1..(Len(seen) - 1) : seen[k]

\* C1: a poll response that contains "Status=FAILED" and neither the problem text
\* nor "Status=WAITING" makes the call raise "BLAST search failed. RID: <rid>";
\* the report fetch is not issued and the parser is not invoked.
C1_FailedRaises ==
    (seen # <<>> /\ "Status=FAILED" \in html /\ Problem \notin html
                /\ "Status=WAITING" \notin html)
    => /\ pc = "raised"
       /\ err = Exc("Exception", <<"BLAST search failed. RID: ", rid>>, <<>>)
       /\ ~Issued("fetch")
       /\ report = None
       /\ parsed = <<>>

C1_Witness ==
    /\ Len(seen) = 2 /\ seen[1]
    /\ "Status=FAILED" \in html /\ "Status=READY" \in html
    /\ Problem \notin html /\ "Status=WAITING" \notin html
    /\ pc = "raised" /\ rid = "FAKE_RID"

\* What C2 concludes: n+1 polls with n sleeps of poll_interval between them, and
\* the report fetch only after the last poll.
C2_Conclusion ==
    LET n == Len(seen) - 1 IN
    \/ pc = "fetch" /\ PollTrace = Alternating(n, rid, poll_interval)
    \/ /\ pc \in {"returned", "raised"}
       /\ PollTrace = Append(Alternating(n, rid, poll_interval), Event("fetch", rid, 0))

\* C2 as stated: n responses containing "Status=WAITING", then one containing
\* "Status=READY", give n+1 polls, n sleeps of poll_interval and then the fetch.
C2_Original ==
    (seen # <<>> /\ EarlierAllWaiting /\ ~seen[Len(seen)] /\ "Status=READY" \in html)
    => C2_Conclusion

\* C2 (amended): n responses containing "Status=WAITING" and not the problem text,
\* then one containing "Status=READY" and none of the problem text,
\* "Status=WAITING", "Status=FAILED", "Status=UNKNOWN", give exactly n+1 status
\* polls, n sleeps of poll_interval, each between two consecutive polls, and only
\* then the report fetch.
C2_WaitingThenReady ==
    (/\ seen # <<>> /\ EarlierAllWaiting
     /\ "Status=READY" \in html
     /\ html \cap {Problem, "Status=WAITING", "Status=FAILED", "Status=UNKNOWN"} = {})
    => C2_Conclusion

C2_Witness ==
    /\ Len(seen) = 3 /\ seen[1] /\ seen[2]
    /\ html = {"Status=READY"}
    /\ poll_interval = DefaultPollInterval
    /\ pc = "returned"
    /\ Len(SelectSeq(events, LAMBDA e : e.op = "sleep")) = 2

\* What C3 concludes: the expired/unknown error carrying the rid, and no fetch.
C3_Conclusion ==
    /\ pc = "raised"
    /\ err = Exc("Exception", <<"BLAST RID expired or unknown. RID: ", rid>>, <<>>)
    /\ ~Issued("fetch")
    /\ report = None

\* C3 as stated: a poll sequence whose last response contains "Status=UNKNOWN"
\* raises the expired/unknown error with the rid and issues no fetch.
C3_Original ==
    (seen # <<>> /\ ~seen[Len(seen)] /\ "Status=UNKNOWN" \in html) => C3_Conclusion

\* C3 (amended): a poll sequence whose last response contains "Status=UNKNOWN" and
\* none of the problem text, "Status=WAITING", "Status=FAILED" (preceded only by
\* WAITING or unrecognized responses) raises "BLAST RID expired or unknown. RID:
\* <rid>" with the rid passed to the call, without issuing the report fetch.
C3_UnknownRaises ==
    (/\ seen # <<>>
     /\ "Status=UNKNOWN" \in html
     /\ html \cap {Problem, "Status=WAITING", "Status=FAILED"} = {})
    => C3_Conclusion

C3_Witness ==
    /\ Len(seen) = 3 /\ seen[1] /\ ~seen[2]
    /\ "Status=UNKNOWN" \in html /\ "Status=READY" \in html
    /\ html \cap {Problem, "Status=WAITING", "Status=FAILED"} = {}
    /\ caller = "wait_for_blast_results" /\ rid = "FAKE_RID"
    /\ pc = "raised"

\* C4: after a READY poll, a fetched report that contains the problem text makes
\* the call raise an error naming the rid; the parser is not invoked and nothing
\* is returned.
C4_FetchProblemRaises ==
    (report # None /\ report[1].problem)
    => /\ Classify(html) = "READY"
       /\ pc = "raised"
       /\ err = Exc("Exception",
                    <<"NCBI returned an error in final fetch. RID: ", rid>>, <<>>)
       /\ parsed = <<>>

C4_Witness ==
    /\ report # None /\ report[1].problem /\ report[1].body # <<>>
    /\ "Status=READY" \in html /\ "dscTable" \in html
    /\ pc = "raised"

\* A line of the submission response that yields a non-empty RID.
YieldsRid(line) == HasRidMark(line) /\ SplitEqStrip(line) # ""
NoRidLine(t) == \A k \in 1..Len(t) : ~YieldsRid(t[k])

\* C5: when no line of the submission response yields a non-empty RID, run_blast
\* raises "RID not found in response" with the raw response text, for either value
\* of wait and with or without an RTOE line; no status poll and no report fetch is
\* issued.
C5_NoRidRaises ==
    (caller = "run_blast" /\ NoRidLine(text))
    => /\ pc = "raised"
       /\ err = Exc("Exception",
                    <<"RID not found in response. Full response:\n">>, text)
       /\ ~Issued("poll") /\ ~Issued("fetch")
       /\ seen = <<>> /\ report = None /\ parsed = <<>>

C5_Witness ==
    /\ caller = "run_blast" /\ wait
    /\ text = <<"    RTOE = 30", "    RID = ">>
    /\ pc = "raised" /\ err.text = text

\* The sleeps taken, in order: the k-th one follows the k-th status poll, whose
\* response held "Status=WAITING" or none of the status texts.
Sleeps == SelectSeq(events, LAMBDA e : e.op = "sleep")

\* C14: in a call of run_blast with wait=True whose submission response gave an
\* RTOE, the sleep after a poll response with none of the recognized status texts
\* is of the job's rtoe, the value read from that response.
C14_SleepsJobRtoe ==
    (caller = "run_blast" /\ job_rtoe # None)
    => \A k \in 1..Len(Sleeps) : ~seen[k] => Sleeps[k].secs = job_rtoe[1]

\* The state a response puts the job in, by the texts it holds: ERROR on the
\* problem text; else WAITING on "Status=WAITING"; else FAILED; else EXPIRED on
\* "Status=UNKNOWN"; else READY; WAITING too when it holds none of them.
StatusTexts == {Problem, "Status=WAITING", "Status=FAILED", "Status=UNKNOWN", "Status=READY"}
IsError(h) == Problem \in h
IsWaiting(h) == ~IsError(h) /\ ("Status=WAITING" \in h \/ h \cap StatusTexts = {})
IsFailed(h) == "Status=FAILED" \in h /\ h \cap {Problem, "Status=WAITING"} = {}
IsExpired(h) ==
    "Status=UNKNOWN" \in h /\ h \cap {Problem, "Status=WAITING", "Status=FAILED"} = {}
IsReady(h) == "Status=READY" \in h /\ h \cap StatusTexts = {"Status=READY"}
IsTerminalFailure(h) == IsError(h) \/ IsFailed(h) \/ IsExpired(h)

\* The events a step adds.
Added == SubSeq(events', Len(events) + 1, Len(events'))
Adds(op) == \E k \in 1..Len(Added) : Added[k].op = op
Count(op) == Len(SelectSeq(events, LAMBDA e : e.op = op))

\* In every state of a call: at most one fetch, and after a response that is a
\* terminal failure the call has raised, with the poll as the last request.
C15_State ==
    /\ Count("fetch") <= 1
    /\ (seen # <<>> /\ IsTerminalFailure(html))
       => /\ pc = "raised" /\ err # NoErr
          /\ Count("fetch") = 0
          /\ events[Len(events)].op = "poll"
          /\ Count("poll") = Len(seen)

\* In every step of a call: a fetch is added only after a response classified
\* READY, a further poll only after one classified WAITING, and once an error is
\* raised nothing is added and the error stays.
C15_Step ==
    /\ Adds("fetch") => seen # <<>> /\ IsReady(html) /\ Count("fetch") = 0
    /\ (Adds("poll") /\ seen # <<>>) => IsWaiting(html)
    /\ err # NoErr => err' = err /\ events' = events

\* C15: within one call of wait_for_blast_results the report fetch is issued at
\* most once and only after a poll response classified READY; after a response
\* classified FAILED, EXPIRED or ERROR no further request is issued and the error
\* is raised once; the only responses followed by another poll are those
\* classified WAITING, explicit or unrecognized.
C15_RequestsFollowStatus == [](C15_State) /\ [][C15_Step]_vars

C15_Witness ==
    /\ pc = "returned" /\ caller = "wait_for_blast_results"
    /\ Len(seen) = 3 /\ seen[1] /\ ~seen[2] /\ IsReady(html)
    /\ Count("poll") = 3 /\ Count("sleep") = 2 /\ Count("fetch") = 1
    /\ events[Len(events)].op = "fetch"

Finished == pc \in {"returned", "raised"}

\* While the last response is classified WAITING the call is still polling,
\* however many polls were answered; a call that polled has finished only after a
\* response classified otherwise.
C16_State ==
    seen # <<>>
    => /\ IsWaiting(html) => pc = "poll" /\ Count("poll") = Len(seen)
                                        /\ Count("sleep") = Len(seen)
       /\ Finished => ~IsWaiting(html)

\* C16: polling ends only by reaching a terminal state: once a response is
\* classified READY, FAILED, EXPIRED or ERROR the call eventually returns or
\* raises; as long as every response is classified WAITING, explicit or
\* unrecognized, the call does not finish, after any number of polls.
C16_EndsOnlyOnTerminal ==
    /\ [](C16_State)
    /\ (seen # <<>> /\ (IsReady(html) \/ IsTerminalFailure(html))) ~> Finished

C16_Witness ==
    /\ pc = "poll"
    /\ Len(seen) = 3 /\ seen[1] /\ ~seen[2] /\ seen[3]
    /\ Count("poll") = 3 /\ Count("sleep") = 3 /\ err = NoErr

\* The texts by which a READY response indicates significant hits.
HitMarkers == {"dscTable", "Sequences producing significant alignments"}

\* What C19 concludes: exactly one report fetch follows the poll, and what is
\* returned is the parse of the fetched text; the hit markers play no part.
C19_Conclusion ==
    /\ Count("poll") = Len(seen)
    /\ \/ /\ pc = "fetch"
          /\ events[Len(events)] = Event("poll", rid, 0)
          /\ Count("fetch") = 0 /\ report = None /\ parsed = <<>>
       \/ /\ Finished
          /\ events[Len(events)] = Event("fetch", rid, 0)
          /\ events[Len(events) - 1] = Event("poll", rid, 0)
          /\ Count("fetch") = 1
          /\ report # None
          /\ IF report[1].problem
             THEN pc = "raised" /\ parsed = <<>>
             ELSE pc = "returned" /\ parsed = <<report[1].body>> /\ err = NoErr

\* C19 as stated: a poll response containing "Status=READY" is a success with or
\* without the hit markers.
C19_Original ==
    (seen # <<>> /\ "Status=READY" \in html) => C19_Conclusion

\* C19 (amended): a poll response containing "Status=READY" and none of the
\* problem text, "Status=WAITING", "Status=FAILED", "Status=UNKNOWN" is a success
\* with or without the hit markers: exactly one report fetch follows, and the
\* parse of the fetched text is returned.
C19_ReadyWithOrWithoutHits ==
    (seen # <<>> /\ IsReady(html)) => C19_Conclusion

C19_Witness ==
    /\ html = {"Status=READY"} /\ html \cap HitMarkers = {}
    /\ Len(seen) = 2 /\ seen[1]
    /\ pc = "returned" /\ parsed = << <<">ACC1 Desc">> >>

\* The last event is the sleep that follows the last poll.
SleptAfterPoll(secs) ==
    /\ pc = "poll" /\ err = NoErr
    /\ events[Len(events)] = Event("sleep", "", secs)
    /\ events[Len(events) - 1] = Event("poll", rid, 0)

\* The call raised on the last poll, with the message msg and the rid.
RaisedOnPoll(msg) ==
    /\ pc = "raised"
    /\ err = Exc("Exception", <<msg, rid>>, <<>>)
    /\ events[Len(events)] = Event("poll", rid, 0)
    /\ Count("fetch") = 0

\* C20: a poll response that holds several status texts is classified by a fixed
\* priority: the problem text wins over every Status text (error, no fetch, even
\* with "Status=READY"); otherwise "Status=WAITING" wins (another poll after
\* poll_interval); otherwise "Status=FAILED"; otherwise "Status=UNKNOWN"; so the
\* fetch follows only a response with "Status=READY" and none of the other four.
C20_FixedPriority ==
    seen # <<>>
    => /\ IF Problem \in html
            THEN RaisedOnPoll("NCBI returned an error during check. RID: ")
          ELSE IF "Status=WAITING" \in html
            THEN SleptAfterPoll(poll_interval)
          ELSE IF "Status=FAILED" \in html
            THEN RaisedOnPoll("BLAST search failed. RID: ")
          ELSE IF "Status=UNKNOWN" \in html
            THEN RaisedOnPoll("BLAST RID expired or unknown. RID: ")
          ELSE IF "Status=READY" \in html
            THEN pc = "fetch" \/ Count("fetch") = 1
          ELSE SleptAfterPoll(rtoe)
       /\ (pc = "fetch" \/ Count("fetch") > 0)
          <=> ("Status=READY" \in html
               /\ html \cap {Problem, "Status=WAITING", "Status=FAILED", "Status=UNKNOWN"} = {})

C20_Witness ==
    /\ Len(seen) = 2 /\ ~seen[1]
    /\ {Problem, "Status=WAITING", "Status=FAILED", "Status=UNKNOWN", "Status=READY"}
         \subseteq html
    /\ pc = "raised"
    /\ err = Exc("Exception", <<"NCBI returned an error during check. RID: ", rid>>, <<>>)
    /\ Count("fetch") = 0

(***************************************************************************)
(* Properties of parse_blast_text_output (ParseSpec)                       *)
(***************************************************************************)
Terminal == pc \in {"returned", "raised"}

\* The lines of the block the k-th Alignment was built from, and the places of that
\* block (counted from 1) the scan of the k-th Alignment went over.
BlockLinesOf(k) == StripLines(blocks[scans[k].block])
ScannedOf(k) ==
    { p \in 1..Len(BlockLinesOf(k)) : scans[k].from < p /\ p <= scans[k].upto }

\* The (start, text, end) written on a Query or Sbjct line.
SbjctLines ==
    { "Sbjct  1  ACGT  4", "Sbjct  5  TTCA  8", "Sbjct  31  GGCC  34",
      "Sbjct  35  AAAT  38" }
WrittenChunk(line) ==
    CASE line = "Query  1  ACGT  4" -> <<1, "ACGT", 4>>
      [] line = "Query  5  TTGA  8" -> <<5, "TTGA", 8>>
      [] line = "Query  21  GGCC  24" -> <<21, "GGCC", 24>>
      [] line = "Query  25  AATT  28" -> <<25, "AATT", 28>>
      [] line = "Sbjct  1  ACGT  4" -> <<1, "ACGT", 4>>
      [] line = "Sbjct  5  TTCA  8" -> <<5, "TTCA", 8>>
      [] line = "Sbjct  31  GGCC  34" -> <<31, "GGCC", 34>>
      [] line = "Sbjct  35  AAAT  38" -> <<35, "AAAT", 38>>

RECURSIVE WrittenChunks(_, _)
\* The chunks written on the n pairs of section sec of a laid-out text; off = 0 for
\* the Query lines, 1 for the Sbjct lines.
WrittenChunks(sec, n) ==
    IF n = 0 THEN <<>>
    ELSE Append(WrittenChunks(sec, n - 1),
                <<WrittenChunk(QueryOf(sec, n)), WrittenChunk(SbjctOf(sec, n))>>)
QueryChunksOf(sec, n) == [k \in 1..n |-> WrittenChunks(sec, n)[k][1]]
SbjctChunksOf(sec, n) == [k \in 1..n |-> WrittenChunks(sec, n)[k][2]]

\* One block with two " Score =" sections, each with its score, identities and
\* one or more Query/Sbjct pairs; between them nothing, a "Sequence ID:" line or a
\* ">" line.
TwoSections(l, n, b, m) ==
    <<">ACC1 Desc">> \o l
    \o <<" Score = 50.0 bits (100),  Expect = 1e-10", " Identities = 45/50 (90%)">>
    \o Pairs(1, n) \o b
    \o <<" Score = 40.0 bits (80),  Expect(2) = 2e-05", " Identities = 3/4 (75%)">>
    \o Pairs(2, m)

\* C6: a subject block with two " Score =" sections yields exactly two Alignment
\* records, the first with the first section's score and segments only, the second
\* with the second's only, both with the block's subj_id, subj_name and subj_len.
C6_TwoSectionsTwoRecords ==
    \A l \in { <<>>, <<"Length=500">> },
       b \in { <<>>, <<"Sequence ID: ACC1 Length: 500">>, <<">ACC2 Another subject">> },
       n, m \in 1..MaxPairs :
        (Terminal /\ text = TwoSections(l, n, b, m))
        => /\ pc = "returned"
           /\ Len(alignments) = 2
           /\ alignments[1].score_bits = Some("50.0")
           /\ alignments[1].score = Some("100")
           /\ alignments[1].query_align_chunks = QueryChunksOf(1, n)
           /\ alignments[1].sbjct_align_chunks = SbjctChunksOf(1, n)
           /\ alignments[2].score_bits = Some("40.0")
           /\ alignments[2].score = Some("80")
           /\ alignments[2].query_align_chunks = QueryChunksOf(2, m)
           /\ alignments[2].sbjct_align_chunks = SbjctChunksOf(2, m)
           /\ \A k \in 1..2 :
                /\ alignments[k].subj_id = "ACC1"
                /\ alignments[k].subj_name = "Desc"
                /\ alignments[k].subj_len = (IF l = <<>> THEN None ELSE Some(500))

\* The report of C7, and the same report with score and Expect on one line, one
\* blank after each "=".
ScenarioA ==
    << ">ACC1 Desc", "Length=500", " Score =  50.0 bits (100)", " Expect = 1e-10",
       " Identities = 45/50 (90%)", "Query  1  ACGT  4", "          ||||",
       "Sbjct  1  ACGT  4" >>
ScenarioOneLine ==
    << ">ACC1 Desc", "Length=500", " Score = 50.0 bits (100),  Expect = 1e-10",
       " Identities = 45/50 (90%)", "Query  1  ACGT  4", "          ||||",
       "Sbjct  1  ACGT  4" >>

\* The record both reports give, but for score_bits, score and e_value.
ScenarioRecord(score_bits, score, e_value) ==
    [subj_id |-> "ACC1", subj_name |-> "Desc", subj_len |-> Some(500),
     score |-> score, score_bits |-> score_bits, e_value |-> e_value,
     match_len |-> Some(45), identities |-> Some(90), align_len |-> Some(50),
     query_align_chunks |-> << <<1, "ACGT", 4>> >>,
     sbjct_align_chunks |-> << <<1, "ACGT", 4>> >>,
     query_align |-> "ACGT", sbjct_align |-> "ACGT", subj_range |-> <<1, 4>>]

\* C7 as stated: the report with " Score =  50.0 bits (100)" and " Expect = 1e-10"
\* on the next line gives one record with score_bits "50.0", score "100" and
\* e_value "1e-10".
C7_Original ==
    (Terminal /\ text = ScenarioA)
    => /\ pc = "returned"
       /\ alignments = << ScenarioRecord(Some("50.0"), Some("100"), Some("1e-10")) >>

\* C7 (amended): that report gives exactly one record with subj_id "ACC1", subj_name
\* "Desc", subj_len 500, match_len 45, align_len 50, identities 90, query_align
\* "ACGT", subj_range (1, 4) and with score_bits, score and e_value undefined; with
\* the single line " Score = 50.0 bits (100),  Expect = 1e-10" in place of the two
\* lines the record has score_bits "50.0", score "100", e_value "1e-10". The
\* Score line supplies bit and raw score only with one blank after "=", and
\* e_value comes only from an Expect token on the Score line itself.
C7_ScenarioA ==
    /\ (Terminal /\ text = ScenarioA)
       => /\ pc = "returned"
          /\ alignments = << ScenarioRecord(None, None, None) >>
    /\ (Terminal /\ text = ScenarioOneLine)
       => /\ pc = "returned"
          /\ alignments = << ScenarioRecord(Some("50.0"), Some("100"), Some("1e-10")) >>

C7_Witness ==
    /\ pc = "returned" /\ text = ScenarioA
    /\ Len(alignments) = 1
    /\ alignments[1].score_bits = None /\ alignments[1].identities = Some(90)

\* Every Query line of the block after its subject line is followed by the markup
\* line and then by a Sbjct line.
WellPaired(ls) ==
    \A p \in 2..Len(ls) :
        ls[p] \in QueryLines
        => p + 2 <= Len(ls) /\ ls[p + 1] = Markup /\ ls[p + 2] \in SbjctLines

RECURSIVE Ascending(_)
\* The members of a set of numbers, in ascending order.
Ascending(S) == IF S = {} THEN <<>> ELSE <<Min(S)>> \o Ascending(S \ {Min(S)})

\* C8: in a record built from a block whose Query lines are each followed by one
\* markup line and the Sbjct line, there are as many query chunks as subject chunks,
\* and the i-th query chunk is the (start, text, end) of the i-th Query line scanned
\* for the record, the i-th subject chunk that of the Sbjct line paired with it.
C8_ChunksPaired ==
    \A k \in 1..Len(alignments) :
        LET ls == BlockLinesOf(k)
            at == Ascending({ p \in ScannedOf(k) : ls[p] \in QueryLines })
            a == alignments[k]
        IN  WellPaired(ls)
            => /\ Len(a.query_align_chunks) = Len(a.sbjct_align_chunks)
               /\ Len(a.query_align_chunks) = Len(at)
               /\ \A x \in 1..Len(at) :
                    /\ a.query_align_chunks[x] = WrittenChunk(ls[at[x]])
                    /\ a.sbjct_align_chunks[x] = WrittenChunk(ls[at[x] + 2])

C8_Witness ==
    /\ pc = "returned"
    /\ Len(alignments) = 2
    /\ WellPaired(BlockLinesOf(1)) /\ WellPaired(BlockLinesOf(2))
    /\ Len(alignments[1].query_align_chunks) = 2
    /\ Len(alignments[2].sbjct_align_chunks) = 2
    /\ alignments[1].sbjct_align_chunks[2] = <<5, "TTCA", 8>>

\* The first chunk of the text, and what of it follows its first "ALIGNMENTS".
FirstChunk == SplitBlocks(text)[1]
AfterFirstToken(b) == SubSeq(b, Min(TokenAt(b)) + 1, Len(b))

\* C11: when the first chunk begins with "<p>" and contains the token "ALIGNMENTS",
\* the first subject block is all of the chunk that follows the first token, nothing
\* of it dropped, also when the token stands more than once; when the chunk does not
\* begin with "<p>" the first subject block is the whole chunk.
C11_AllAfterToken ==
    blocks # <<>>
    => IF FirstChunk[1] \in PLines
       THEN TokenAt(FirstChunk) # {}
            => StripLines(blocks[1]) = StripLines(AfterFirstToken(FirstChunk))
       ELSE blocks[1] = FirstChunk

\* C9: an empty report body gives an empty sequence of records and no exception.
C9_EmptyBodyNoRecords ==
    (Terminal /\ \A k \in 1..Len(text) : text[k] \in BlankLines)
    => pc = "returned" /\ alignments = <<>>

\* C10: no missing optional line makes the parser raise, and a record for which no
\* " Score =" line was scanned has score_bits, score and e_value undefined, one
\* with no Identities line has match_len, align_len and identities undefined, one
\* with no "Length=" line has subj_len undefined.
C10_MissingLinesUndefined ==
    /\ err.type # "UnboundLocalError"
    /\ \A k \in 1..Len(alignments) :
        LET ls == BlockLinesOf(k)
            kinds == { LineKind(ls[p]) : p \in ScannedOf(k) }
            a == alignments[k]
        IN  /\ "Score" \notin kinds
               => a.score_bits = None /\ a.score = None /\ a.e_value = None
            /\ "Identities" \notin kinds
               => a.match_len = None /\ a.align_len = None /\ a.identities = None
            /\ "Length" \notin kinds => a.subj_len = None

\* The k-th record was finalized at a line beginning with ">" or "Sequence ID:".
EndedByTerminator(k) ==
    /\ scans[k].upto < Len(BlockLinesOf(k))
    /\ LineKind(BlockLinesOf(k)[scans[k].upto + 1]) = "break"

\* The chunks written on the Query and Sbjct lines scanned for the k-th record.
ChunksScanned(k) ==
    { WrittenChunk(BlockLinesOf(k)[p]) :
        p \in { q \in ScannedOf(k) : BlockLinesOf(k)[q] \in QueryLines \cup SbjctLines } }

\* The record holds segments read before the terminator only.
C17_OnlyBefore(k) ==
    /\ \A x \in 1..Len(alignments[k].query_align_chunks) :
         alignments[k].query_align_chunks[x] \in ChunksScanned(k)
    /\ \A x \in 1..Len(alignments[k].sbjct_align_chunks) :
         alignments[k].sbjct_align_chunks[x] \in ChunksScanned(k)

\* The next record of the block starts at the first " Score =" line after the
\* terminator.
C17_Resumes(k) ==
    (k < Len(alignments) /\ scans[k + 1].block = scans[k].block)
    => /\ BlockLinesOf(k)[scans[k + 1].from + 1] \in ScoreLines
       /\ \A p \in (scans[k].upto + 1)..scans[k + 1].from :
            BlockLinesOf(k)[p] \notin ScoreLines

\* The next record of the block has the subject of this one.
C17_SameSubject(k) ==
    (k < Len(alignments) /\ scans[k + 1].block = scans[k].block)
    => /\ alignments[k + 1].subj_id = alignments[k].subj_id
       /\ alignments[k + 1].subj_name = alignments[k].subj_name
       /\ alignments[k + 1].subj_len = alignments[k].subj_len

\* C17: a line beginning with ">" or "Sequence ID:" inside a block ends the
\* sub-record and is not read as content: the record finalized there holds only
\* what was read before it, the scan resumes at the next " Score =" line, and
\* the record of that next sub-record has the subj_id, subj_name and subj_len of
\* the block.
C17_TerminatorEndsSubRecord ==
    \A k \in 1..Len(alignments) :
        EndedByTerminator(k)
        => C17_OnlyBefore(k) /\ C17_Resumes(k) /\ C17_SameSubject(k)

\* One block with its Score and Identities lines, n - 1 complete Query / markup /
\* Sbjct triples and a last Query line that the block ends on (t = <<>>) or one line
\* after (t = <<Markup>>).
Truncated(l, n, t) ==
    <<">ACC1 Desc">> \o l
    \o <<" Score = 50.0 bits (100),  Expect = 1e-10", " Identities = 45/50 (90%)">>
    \o Pairs(1, n - 1) \o <<QueryOf(1, n)>> \o t

\* What C18 says of such a block with n Query lines.
C18_Recorded(n) ==
    /\ pc = "returned"
    /\ Len(alignments) = 1
    /\ alignments[1].query_align_chunks = QueryChunksOf(1, n)
    /\ alignments[1].sbjct_align_chunks = SbjctChunksOf(1, n - 1)

\* C18: when the line two places after a Query line does not exist, the query
\* segment is still recorded and the record is finalized without a paired subject
\* segment for it and without raising, whether the record has earlier complete
\* pairs or the truncated Query line is its only segment line.
C18_TruncatedQueryRecorded ==
    \A l \in { <<>>, <<"Length=500">> }, t \in { <<>>, <<Markup>> }, n \in 1..MaxPairs :
        (Terminal /\ text = Truncated(l, n, t)) => C18_Recorded(n)

\* Between two tests of the outer loop the cursor has moved on: at the test, it is
\* past the line the last sub-record of this block started at.
C21_State ==
    (pc = "outer" /\ scans # <<>> /\ scans[Len(scans)].block = bi)
    => i > scans[Len(scans)].from

\* The last step: the cursor did not go back within a block; a line read in the
\* inner loop was left behind, as one kind only; after a Query line the cursor is
\* past the markup line and the paired line, which are thus never read as Score,
\* Identities, Query or terminator lines; the skip moved one line on.
C21_Step ==
    /\ prev.bi = bi => i >= prev.i
    /\ (prev.pc = "inner" /\ pc = "inner") => i > prev.i
    /\ (prev.pc = "inner" /\ pc = "inner" /\ LineKind(Line(prev.i)) = "Query")
       => i = prev.i + 3
    /\ (prev.pc = "inner" /\ pc = "build") => i = prev.i
    /\ (prev.pc = "skip" /\ pc = "skip") => i = prev.i + 1

\* A measure of the work left when the parser is at place p of block b with the
\* cursor at c: the blocks to come, then the lines of the block past the cursor,
\* then the place in the loops at one cursor position (a sub-record that starts
\* or ends on a terminator line still has its build and its skip to do there).
\* It is 0 once the parse has returned or raised.
AtTerminator(c) == c < Len(lines) /\ LineKind(Line(c)) = "break"
PlaceRank(p, c) ==
    CASE p = "outer" -> IF AtTerminator(c) THEN 8 ELSE 4
      [] p = "inner" -> IF AtTerminator(c) \/ c >= Len(lines) THEN 7 ELSE 3
      [] p = "build" -> 6
      [] p = "skip" -> 5
      [] OTHER -> 0
LineCap == Len(text) + 3
BlockWork == 9 * LineCap + 10
Measure(p, b, c) ==
    CASE p = "parse" -> BlockWork * (Len(text) + 1) + 2
      [] p = "for" -> BlockWork * (Len(blocks) - b) + 1
      [] p \in {"outer", "inner", "build", "skip"} ->
           BlockWork * (Len(blocks) - b) + 2 + 9 * (LineCap - c) + PlaceRank(p, c)
      [] OTHER -> 0

\* The measure is a natural number, it is 0 only when the parse has returned or
\* raised, and the last step lowered it.
C21_Progress ==
    /\ Measure(pc, bi, i) \in Nat
    /\ i <= LineCap
    /\ Measure(pc, bi, i) = 0 <=> Terminal
    /\ prev # NoStep => Measure(pc, bi, i) < Measure(prev.pc, prev.bi, prev.i)

\* C21: the parse is a single forward pass: the cursor never decreases within a
\* block, every iteration of the outer loop moves it on by at least one line, every
\* line is read as at most one kind, the markup and the paired line after a Query
\* line are not scanned again, and the parse of a text finishes, returning or
\* raising: every step lowers a measure that is a natural number and is 0 only
\* for a parse that has returned or raised.
C21_SingleForwardPass == C21_State /\ C21_Step /\ C21_Progress

C21_Witness ==
    /\ pc = "returned"
    /\ Len(blocks) = 2 /\ Len(alignments) = 2 /\ Len(scans) = 2
    /\ scans[1].block = 1 /\ scans[2].block = 2
    /\ Len(alignments[1].query_align_chunks) = 2
    /\ i >= Len(lines)

(***************************************************************************)
(* Properties of Alignment (AlignSpec)                                     *)
(***************************************************************************)
RECURSIVE Concat(_)
\* The texts of the chunks, one after the other.
Concat(chunks) ==
    IF chunks = <<>> THEN "" ELSE Concat(SubSeq(chunks, 1, Len(chunks) - 1))
                                   \o chunks[Len(chunks)][2]

\* C12: construction with 0, 1 or N query and subject chunks succeeds, query_align
\* and sbjct_align are the texts of the respective chunks concatenated in order,
\* and with no chunks they are empty strings and the range is undefined, nothing
\* being raised.
C12_ConstructionSucceeds ==
    pc # "new"
    => /\ pc = "returned"
       /\ Len(alignments) = 1
       /\ alignments[1].query_align = Concat(query_chunks)
       /\ alignments[1].sbjct_align = Concat(sbjct_chunks)
       /\ sbjct_chunks = <<>> => alignments[1].subj_range = None

\* C13: an Alignment built with at least one subject chunk has subj_range = (start
\* of the first subject chunk, end of the last one), whatever subj_len and the
\* query chunks are.
C13_RangeFromSubjectChunks ==
    (pc # "new" /\ sbjct_chunks # <<>>)
    => /\ pc = "returned"
       /\ alignments[1].subj_range
            = <<sbjct_chunks[1][1], sbjct_chunks[Len(sbjct_chunks)][3]>>

C13_Witness ==
    /\ pc = "returned"
    /\ sbjct_chunks = << <<1, "ACGT", 4>>, <<31, "GGCC", 34>> >>
    /\ query_chunks = <<>>
    /\ loc.subj_len = Some(2)
    /\ alignments[1].subj_range = <<1, 34>>

====
